---- MODULE Spec2Model ----
(***************************************************************************)
(* BrightCare chat pipeline: pattern guardrails, prompt composer,          *)
(* evaluator and the two turn orchestrators (processMessage,               *)
(* processEphemeralMessage) with the storage and the routes that call      *)
(* them.                                                                   *)
(*                                                                         *)
(* Strings.  A JavaScript string is modelled as a sequence of fragments    *)
(* (TLA+ strings); the empty sequence is the empty string "" and string    *)
(* concatenation is \o.  Regular expressions and String.includes are       *)
(* evaluated fragment by fragment from the tables Matching and Substrings. *)
(* A nullable / optional value is a set with at most one element:          *)
(* None is null or undefined, Some(x) is x.                                *)
(***************************************************************************)
EXTENDS Integers, Sequences, FiniteSets, TLC

None == {}
Some(x) == {x}
The(opt) == CHOOSE x \in opt : TRUE

\* JavaScript's a || b on an optional string: b when a is undefined, null or "".
OrElse(opt, dflt) == IF opt = None \/ opt = Some(<<>>) THEN dflt ELSE The(opt)

\* JavaScript's a || b on an optional number: b when a is undefined, null or 0.
OrElseNum(opt, dflt) == IF opt = None \/ opt = Some(0) THEN dflt ELSE The(opt)

(***************************************************************************)
(* Bounds of the model.                                                    *)
(***************************************************************************)
MaxTextLen == 2
ScoreSlack == 2
MaxTurns == 2
MaxConversations == 1
MaxAdminOps == 2
MaxSessions == 2

(***************************************************************************)
(* State.                                                                  *)
(*   documents, prompts   rows of the two admin-managed tables (sets of    *)
(*                        records with a serial id and a creation time)    *)
(*   conversations        ids of the rows of table conversations           *)
(*   messages             rows of table messages in creation order         *)
(*   traceLogs            rows of table trace_logs in creation order       *)
(*   serial               the next value of each serial id and of the      *)
(*                        creation clock                                   *)
(*   turn                 one record per chat request: the position of its *)
(*                        handler and the handler's local variables        *)
(*   deletion             the position of DELETE /api/conversations/:id    *)
(*   adminOps             number of admin writes done: the version of the  *)
(*                        knowledge base (a request notes the version each *)
(*                        of its two reads saw in promptsReadAt and        *)
(*                        documentsReadAt)                                 *)
(*   call                 the last call of a pure function made by the     *)
(*                        function harness (FnSpec)                        *)
(*   versions             what getActivePrompts and getActiveDocuments     *)
(*                        return at start-up and after each admin write    *)
(*   auth                 the admin flag of each session and the last      *)
(*                        request to a login, logout or admin-only route   *)
(***************************************************************************)
VARIABLES documents, prompts, conversations, messages, traceLogs, serial,
          turn, deletion, adminOps, call, versions, auth

storeVars == <<documents, prompts, conversations, messages, traceLogs, serial>>
vars == <<documents, prompts, conversations, messages, traceLogs, serial,
          turn, deletion, adminOps, call, versions, auth>>

(***************************************************************************)
(* Fragments of text.                                                      *)
(***************************************************************************)
Fragments ==
  { "hello", "123-45-6789", "555-123-4567", "pat@example.com",
    "12 Oak Street", "12 OAK STREET",
    "ignore previous", "IGNORE PREVIOUS", "Jailbreak",
    "social security", "Medical Record", "first",
    "we do not", "Never Share" }

\* String.prototype.toLowerCase on one fragment.
LowerFragment(f) ==
  CASE f = "12 Oak Street" -> "12 oak street"
    [] f = "12 OAK STREET" -> "12 oak street"
    [] f = "IGNORE PREVIOUS" -> "ignore previous"
    [] f = "Jailbreak" -> "jailbreak"
    [] f = "Medical Record" -> "medical record"
    [] f = "Never Share" -> "never share"
    [] OTHER -> f

\* Mutant: the text is compared as typed.
toLowerCase_AsTyped(s) == s

toLowerCase(s) == [i \in DOMAIN s |-> LowerFragment(s[i])]

\* The listed phrases that occur inside a fragment, besides the fragment itself.
Substrings(f) ==
  {f} \cup (CASE f = "first" -> {"irs"}
              [] OTHER -> {})

\* String.prototype.includes.
includes(s, phrase) == \E i \in DOMAIN s : phrase \in Substrings(s[i])

\* The fragments each regular expression matches (the street pattern has flag i).
Matching(pattern) ==
  CASE pattern = "ssn" -> {"123-45-6789"}
    [] pattern = "phone" -> {"555-123-4567"}
    [] pattern = "email" -> {"pat@example.com"}
    [] pattern = "street" -> {"12 Oak Street", "12 OAK STREET"}

PatternNames == {"ssn", "phone", "email", "street"}

\* Mutant: one RegExp object per pattern, with flag g, shared by all calls.
RegExpLiteral_SharedGlobal(pattern) ==
  [pattern |-> pattern, global |-> TRUE, lastIndex |-> call.lastIndex[pattern]]

\* A regular expression literal in a function body: every call evaluates it to a new
\* RegExp object, whose lastIndex is 0; none of the literals has flag g.
RegExpLiteral(pattern) == [pattern |-> pattern, global |-> FALSE, lastIndex |-> 0]

\* RegExpBuiltinExec on a text of fragments, positions counted in fragments: the
\* search starts at lastIndex when the object has flag g and at 0 otherwise, and
\* only an object with flag g has its lastIndex written.
exec(re, s) ==
  LET from == IF re.global THEN re.lastIndex ELSE 0
      hits == {i \in DOMAIN s : i > from /\ s[i] \in Matching(re.pattern)}
  IN [matched |-> hits # {},
      lastIndex |-> IF ~re.global THEN re.lastIndex
                    ELSE IF hits = {} THEN 0
                    ELSE CHOOSE i \in hits : \A j \in hits : i <= j]

\* RegExp.prototype.test.
test(pattern, s) == exec(RegExpLiteral(pattern), s).matched

\* The lastIndex of each pattern's RegExp object after the loop
\* "for (const pattern of piiPatterns) if (pattern.test(s)) return" ran over s.
lastIndexAfter(patterns, s) ==
  LET hits == {k \in DOMAIN patterns : test(patterns[k], s)}
      tested == IF hits = {} THEN DOMAIN patterns
                ELSE 1..(CHOOSE k \in hits : \A j \in hits : k <= j)
  IN [p \in PatternNames |->
        IF \E k \in tested : patterns[k] = p
        THEN exec(RegExpLiteral(p), s).lastIndex
        ELSE call.lastIndex[p]]

(***************************************************************************)
(* Pattern guardrails.                                                     *)
(***************************************************************************)
\* Mutant: the input check with the output check's three patterns.
piiPatternsInput_NoStreet == <<"ssn", "phone", "email">>

piiPatternsInput == <<"ssn", "phone", "email", "street">>

PII_REASON ==
  <<"Input contains potential PII (personal identifiable information). For your safety, please do not share personal information in chat.">>

injectionPatterns ==
  << "ignore previous", "ignore your instructions", "ignore all previous",
     "disregard", "forget your rules", "pretend you are", "act as if you are not",
     "reveal your prompt", "show me your instructions", "what are your system",
     "override", "jailbreak", "do anything now", "developer mode" >>

SCOPE_REASON ==
  <<"Your message appears to contain content that falls outside the scope of daycare-related inquiries.">>

checkInputGuardrails(userMessage) ==
  LET lowerMsg == toLowerCase(userMessage) IN
  IF \E k \in DOMAIN piiPatternsInput : test(piiPatternsInput[k], userMessage)
  THEN [passed |-> FALSE, reason |-> Some(PII_REASON)]
  ELSE IF \E k \in DOMAIN injectionPatterns : includes(lowerMsg, injectionPatterns[k])
  THEN [passed |-> FALSE, reason |-> Some(SCOPE_REASON)]
  ELSE [passed |-> TRUE, reason |-> None]

piiPatternsOutput == <<"ssn", "phone", "email">>

OUTPUT_PII_REASON ==
  <<"Response contains potential PII data that violates COPPA/FERPA compliance.">>

sensitiveKeywords ==
  << "social security", "ssn", "date of birth", "home address",
     "medical record", "diagnosis", "prescription", "irs",
     "bank account", "credit card", "routing number" >>

\* Mutant: the sensitive-keyword test without the safe-harbor exemption.
checkOutputGuardrails_NoHarbor(response) ==
  LET lowerResponse == toLowerCase(response)
      hits == { k \in DOMAIN sensitiveKeywords : includes(lowerResponse, sensitiveKeywords[k]) }
  IN
  IF \E k \in DOMAIN piiPatternsOutput : test(piiPatternsOutput[k], response)
  THEN [passed |-> FALSE, reason |-> Some(OUTPUT_PII_REASON)]
  ELSE IF hits # {}
  THEN LET k == CHOOSE j \in hits : \A h \in hits : j <= h IN
       [passed |-> FALSE,
        reason |-> Some(<<"Response references sensitive information: ", sensitiveKeywords[k]>>)]
  ELSE [passed |-> TRUE, reason |-> None]

checkOutputGuardrails(response) ==
  LET lowerResponse == toLowerCase(response)
      hits == { k \in DOMAIN sensitiveKeywords :
                  /\ includes(lowerResponse, sensitiveKeywords[k])
                  /\ ~includes(lowerResponse, "we do not")
                  /\ ~includes(lowerResponse, "never share") }
  IN
  IF \E k \in DOMAIN piiPatternsOutput : test(piiPatternsOutput[k], response)
  THEN [passed |-> FALSE, reason |-> Some(OUTPUT_PII_REASON)]
  ELSE IF hits # {}
  THEN LET k == CHOOSE j \in hits : \A h \in hits : j <= h IN
       [passed |-> FALSE,
        reason |-> Some(<<"Response references sensitive information: ", sensitiveKeywords[k]>>)]
  ELSE [passed |-> TRUE, reason |-> None]

(***************************************************************************)
(* Evaluator.  A response of the evaluator's completion call is either a   *)
(* thrown error or a completion with an id and a message content; the      *)
(* content is null, text JSON.parse rejects, or a JSON object with         *)
(* optional score and feedback.                                            *)
(***************************************************************************)
EVAL_DEFAULT_JSON ==
  [score |-> Some(70), half |-> FALSE, feedback |-> Some(<<"Unable to fully evaluate">>)]


max(a, b) == IF a >= b THEN a ELSE b
min(a, b) == IF a <= b THEN a ELSE b

\* Math.max(0, Math.min(100, v)) for the number v = n + 1/2 when half, else n:
\* the whole part of the result and whether the result still has the half.
clampWhole(n, half) == max(0, min(100, n))
clampHalf(n, half) == half /\ 0 <= n /\ n < 100

\* Mutant: a failed evaluator call scores the reply 0.
runEvaluatorAgent_ZeroOnFailure(resp) ==
  IF resp.throws \/ resp.content.kind = "unparsable"
  THEN [score |-> 0,
        half |-> FALSE,
        feedback |-> <<"Evaluator unavailable - default score applied.">>,
        traceId |-> None]
  ELSE LET evalResult == IF resp.content.kind = "null" THEN EVAL_DEFAULT_JSON
                         ELSE [score |-> resp.content.score, half |-> resp.content.half,
                               feedback |-> resp.content.feedback]
           \* evalResult.score || 70: a number with a fractional part is truthy
           orElse == IF evalResult.half THEN The(evalResult.score)
                     ELSE OrElseNum(evalResult.score, 70)
       IN [score |-> clampWhole(orElse, evalResult.half),
           half |-> clampHalf(orElse, evalResult.half),
           feedback |-> OrElse(evalResult.feedback, <<"Evaluation completed.">>),
           traceId |-> IF resp.id = Some(<<>>) THEN None ELSE resp.id]

runEvaluatorAgent(resp) ==
  IF resp.throws \/ resp.content.kind = "unparsable"
  THEN [score |-> 70,
        half |-> FALSE,
        feedback |-> <<"Evaluator unavailable - default score applied.">>,
        traceId |-> None]
  ELSE LET evalResult == IF resp.content.kind = "null" THEN EVAL_DEFAULT_JSON
                         ELSE [score |-> resp.content.score, half |-> resp.content.half,
                               feedback |-> resp.content.feedback]
           \* evalResult.score || 70: a number with a fractional part is truthy
           orElse == IF evalResult.half THEN The(evalResult.score)
                     ELSE OrElseNum(evalResult.score, 70)
       IN [score |-> clampWhole(orElse, evalResult.half),
           half |-> clampHalf(orElse, evalResult.half),
           feedback |-> OrElse(evalResult.feedback, <<"Evaluation completed.">>),
           traceId |-> IF resp.id = Some(<<>>) THEN None ELSE resp.id]

(***************************************************************************)
(* Prompt composer.  activePrompts and activeDocuments are the sequences   *)
(* storage returned.                                                       *)
(***************************************************************************)
RECURSIVE join(_, _)
\* Array.prototype.join on an array of strings.
join(strings, sep) ==
  IF strings = <<>> THEN <<>>
  ELSE IF Len(strings) = 1 THEN strings[1]
  ELSE strings[1] \o sep \o join(Tail(strings), sep)

BASE_PREAMBLE == "You are BrightBot ... FACILITY KNOWLEDGE BASE:\n"

renderDocument(doc) == <<"--- ", doc.title, " (", doc.category, ") ---\n">> \o doc.content

composePrompt(activePrompts, activeDocuments) ==
  LET basePrompt == <<BASE_PREAMBLE>>
                      \o join([i \in DOMAIN activeDocuments |-> renderDocument(activeDocuments[i])],
                              <<"\n\n">>)
      customPrompts == join([i \in DOMAIN activePrompts |-> activePrompts[i].content], <<"\n\n">>)
  IN IF customPrompts # <<>>
     THEN basePrompt \o <<"\n\nADDITIONAL INSTRUCTIONS:\n">> \o customPrompts
     ELSE basePrompt
Turns == 1..MaxTurns
ConversationIds == 1..MaxConversations

(***************************************************************************)
(* Inputs: what the clients and the two upstream endpoints can send.       *)
(***************************************************************************)
RECURSIVE SeqsUpTo(_, _)
SeqsUpTo(S, n) ==
  IF n = 0 THEN {<<>>}
  ELSE LET shorter == SeqsUpTo(S, n - 1) IN
       shorter \cup {Append(s, x) : s \in shorter, x \in S}

\* Every text of the function harness.
Texts == SeqsUpTo(Fragments, MaxTextLen)

\* The user texts of the chat requests.
UserTexts ==
  { <<>>, <<"hello">>, <<"123-45-6789">>, <<"555-123-4567">>, <<"12 OAK STREET">>,
    <<"IGNORE PREVIOUS">>, <<"pat@example.com", "Jailbreak">> }

\* The replies the completion endpoint generates.
ReplyTexts ==
  { <<"hello">>, <<"social security">>, <<"555-123-4567">> }

USAGE == [prompt_tokens |-> 42, completion_tokens |-> 7, total_tokens |-> 49]

CompletionResponses ==
  { [throws |-> TRUE, message |-> <<"Connection error.">>, id |-> None, model |-> None,
     content |-> None, usage |-> None] }
  \cup { [throws |-> FALSE, message |-> <<>>, id |-> Some(<<"chatcmpl-1">>),
          model |-> Some(<<"gpt-4o-mini-2024-07-18">>), content |-> Some(r),
          usage |-> Some(USAGE)] : r \in ReplyTexts }
  \cup { [throws |-> FALSE, message |-> <<>>, id |-> None, model |-> None,
          content |-> None, usage |-> None] }

Scores == (0 - ScoreSlack)..(100 + ScoreSlack)

EvaluatorContents ==
  { [kind |-> "null", score |-> None, half |-> FALSE, feedback |-> None],
    [kind |-> "unparsable", score |-> None, half |-> FALSE, feedback |-> None] }
  \cup { [kind |-> "json", score |-> Some(n), half |-> TRUE, feedback |-> Some(<<"Good">>)] :
           n \in Scores }
  \cup { [kind |-> "json", score |-> sc, half |-> FALSE, feedback |-> fb] :
           sc \in {None} \cup {Some(n) : n \in Scores},
           fb \in {None, Some(<<"Good">>)} }

\* Every response of the evaluator's completion call (function harness).
EvaluatorResponses ==
  { [throws |-> TRUE, id |-> None, content |-> [kind |-> "null", score |-> None, half |-> FALSE, feedback |-> None]] }
  \cup { [throws |-> FALSE, id |-> i, content |-> c] :
           i \in {None, Some(<<"chatcmpl-eval">>)}, c \in EvaluatorContents }

\* The evaluator responses of the chat requests.
TurnEvaluatorResponses ==
  { r \in EvaluatorResponses :
      /\ r.id # None \/ r.throws
      /\ r.content.kind \in {"json", "unparsable"} \/ r.throws
      /\ r.content.kind = "json" =>
           /\ r.content.score \in {Some(85), Some(0)}
           /\ r.content.half => r.content.score = Some(85)
           /\ r.content.feedback = Some(<<"Good">>) }

Histories ==
  { <<>>,
    << [role |-> "user", content |-> <<"123-45-6789">>],
       [role |-> "assistant", content |-> <<"hello">>] >> }

DocumentInputs ==
  { [title |-> "Hours", category |-> "operations", content |-> <<"Open 6:30-6:30">>,
     isActive |-> a] : a \in BOOLEAN }

PromptInputs ==
  { [name |-> "Tone", content |-> c, type |-> "system", isActive |-> a] :
      c \in {<<>>, <<"Be brief.">>}, a \in BOOLEAN }

DocumentPatches ==
  { [content |-> None, isActive |-> Some(a)] : a \in BOOLEAN }
  \cup { [content |-> Some(<<"Open 7-6">>), isActive |-> None] }

PromptPatches ==
  { [content |-> None, isActive |-> Some(a)] : a \in BOOLEAN }
  \cup { [content |-> Some(<<>>), isActive |-> None] }
(***************************************************************************)
(* Storage (DatabaseStorage over the tables of shared/schema.ts).          *)
(***************************************************************************)
RECURSIVE orderByDescCreatedAt(_)
\* ORDER BY created_at DESC; rows of equal creation time come in id order.
orderByDescCreatedAt(rows) ==
  IF rows = {} THEN <<>>
  ELSE LET first == CHOOSE r \in rows :
                      \A q \in rows : \/ r.createdAt > q.createdAt
                                      \/ r.createdAt = q.createdAt /\ r.id <= q.id
       IN <<first>> \o orderByDescCreatedAt(rows \ {first})

\* Mutant: the read without the is_active filter.
getActiveDocuments_All == orderByDescCreatedAt(documents)

getActiveDocuments == orderByDescCreatedAt({d \in documents : d.isActive})

getActivePrompts == orderByDescCreatedAt({q \in prompts : q.isActive})

\* What the two queries of buildSystemPrompt return in the current state.
ActiveNow == [prompts |-> getActivePrompts, documents |-> getActiveDocuments]

getMessages(conversationId) ==
  SelectSeq(messages, LAMBDA m : m.conversationId = conversationId)

\* messages.conversation_id is NOT NULL and references conversations.id.
messageAccepted(conversationId) == conversationId \in conversations

\* trace_logs.conversation_id is nullable and references conversations.id;
\* trace_logs.evaluator_score is an integer column.
traceLogAccepted(log) ==
  /\ log.conversationId = None \/ The(log.conversationId) \in conversations
  /\ ~log.evaluatorScoreHalf

\* The row createMessage inserts for request t (field turn records the writer).
insertMessage(t, conversationId, role, content) ==
  Append(messages, [id |-> serial.message, turn |-> t, conversationId |-> conversationId,
                    role |-> role, content |-> content])

\* The row createTraceLog inserts for request t (field turn records the writer;
\* response_time_ms and created_at are left out).
insertTraceLog(t, log) ==
  Append(traceLogs,
         [id |-> serial.traceLog, turn |-> t,
          conversationId |-> log.conversationId, traceId |-> log.traceId,
          model |-> log.model, promptTokens |-> log.promptTokens,
          completionTokens |-> log.completionTokens, totalTokens |-> log.totalTokens,
          userMessage |-> log.userMessage, assistantMessage |-> log.assistantMessage,
          guardrailResult |-> log.guardrailResult, evaluatorScore |-> log.evaluatorScore,
          evaluatorFeedback |-> log.evaluatorFeedback, blocked |-> log.blocked,
          blockReason |-> log.blockReason])

\* The rows seedDatabase inserts in one statement each (two of the five documents).
seedDocuments ==
  { [id |-> 1, title |-> "Hours of Operation", category |-> "operations",
     content |-> <<"Open 6:30-6:30">>, isActive |-> TRUE, createdAt |-> 0],
    [id |-> 2, title |-> "Tuition and Fees", category |-> "tuition",
     content |-> <<"Tuition is due every Monday.">>, isActive |-> TRUE, createdAt |-> 0] }

seedPrompts ==
  { [id |-> 1, name |-> "Friendly Greeting Style", content |-> <<"Always greet parents warmly.">>,
     type |-> "system", isActive |-> TRUE, createdAt |-> 1],
    [id |-> 2, name |-> "Safety First Response", content |-> <<"Emphasize child safety.">>,
     type |-> "system", isActive |-> TRUE, createdAt |-> 1] }

(***************************************************************************)
(* Chat requests.                                                          *)
(***************************************************************************)
BLOCKED_RESPONSE ==
  <<"I'm sorry. I can't help you with that, but I can answer any questions regarding this facility and its operations.">>

SAFE_RESPONSE ==
  <<"I apologize, but I encountered an issue generating a safe response. Please contact the facility directly for assistance.">>

NO_CONTENT_RESPONSE ==
  <<"I apologize, but I was unable to generate a response. Please try again.">>

GENERIC_FAILURE == <<"Failed to process message. Please try again.">>

FK_VIOLATION == <<"insert or update on table violates foreign key constraint">>

INVALID_INTEGER == <<"invalid input syntax for type integer">>

\* The error of a rejected createTraceLog: evaluator_score is an integer column,
\* conversation_id a foreign key.
rejection(log) == IF log.evaluatorScoreHalf THEN INVALID_INTEGER ELSE FK_VIOLATION

NoResult == [kind |-> "pending", content |-> <<>>, blocked |-> FALSE,
             blockReason |-> None, message |-> <<>>]

Returned(content, blocked, blockReason) ==
  [kind |-> "returned", content |-> content, blocked |-> blocked,
   blockReason |-> blockReason, message |-> <<>>]

Raised(message) ==
  [kind |-> "raised", content |-> <<>>, blocked |-> FALSE,
   blockReason |-> None, message |-> message]

SessionIds == 1..MaxSessions

\* No request to a login, logout or admin-only route was made yet.
NoRequest ==
  [route |-> "none", sid |-> 0, username |-> None, password |-> None,
   status |-> 0, storageCalls |-> 0, isAdmin |-> FALSE]

NoTurn ==
  [kind |-> "none", pc |-> "idle", conversationId |-> 0, userMessage |-> <<>>,
   history |-> <<>>, guardrailCheck |-> None, activePrompts |-> <<>>,
   systemPrompt |-> <<>>, chatMessages |-> <<>>, completion |-> None,
   assistantContent |-> <<>>, outputCheck |-> None, evaluation |-> None,
   error |-> <<>>, result |-> NoResult, status |-> 0,
   completionCalls |-> 0, evaluatorCalls |-> 0, traceWrites |-> 0,
   promptsReadAt |-> 0, documentsReadAt |-> 0]

Init ==
  /\ documents = seedDocuments
  /\ prompts = seedPrompts
  /\ conversations = {}
  /\ messages = <<>>
  /\ traceLogs = <<>>
  /\ serial = [document |-> 3, prompt |-> 3, conversation |-> 1, message |-> 1,
               traceLog |-> 1, clock |-> 2]
  /\ turn = [t \in Turns |-> NoTurn]
  /\ deletion = [pc |-> "idle", id |-> 0]
  /\ adminOps = 0
  /\ call = [fn |-> "none", arg |-> <<>>, result |-> <<>>, before |-> None,
             lastIndex |-> [p \in PatternNames |-> 0]]
  /\ versions = <<ActiveNow>>
  /\ auth = [isAdmin |-> [sid \in SessionIds |-> FALSE], last |-> NoRequest]

CanStart(t) == turn[t].kind = "none" /\ (IF t = 1 THEN TRUE ELSE turn[t - 1].kind # "none")

Bump(field) == [serial EXCEPT ![field] = @ + 1]
\* The handler of request t answers with an HTTP status and stops.
Respond(r, status) == [r EXCEPT !.pc = "done", !.status = status]

\* POST /api/conversations/:id/messages up to processMessage's first storage call:
\* the content check, createMessage of the user message, the input guardrail.
PostMessage(t, c, content) ==
  /\ CanStart(t)
  /\ LET r == [NoTurn EXCEPT !.kind = "persistent", !.conversationId = c,
                             !.userMessage = content]
     IN
     IF content = <<>>
     THEN /\ turn' = [turn EXCEPT ![t] = Respond(r, 400)]
          /\ UNCHANGED <<messages, serial>>
     ELSE IF ~messageAccepted(c)
     THEN /\ turn' = [turn EXCEPT ![t] = Respond(r, 500)]
          /\ serial' = Bump("message")
          /\ UNCHANGED messages
     ELSE LET guardrailCheck == checkInputGuardrails(content) IN
          /\ messages' = insertMessage(t, c, "user", content)
          /\ serial' = Bump("message")
          /\ turn' = [turn EXCEPT ![t] =
                        [r EXCEPT !.guardrailCheck = Some(guardrailCheck),
                                  !.pc = IF guardrailCheck.passed THEN "getActivePrompts"
                                         ELSE "createTraceLog:input"]]
  /\ UNCHANGED <<documents, prompts, conversations, traceLogs, deletion, adminOps, call, versions, auth>>

\* POST /api/chat up to processEphemeralMessage's first storage call.
PostChat(t, message, history) ==
  /\ CanStart(t)
  /\ LET r == [NoTurn EXCEPT !.kind = "ephemeral", !.userMessage = message,
                             !.history = history]
         guardrailCheck == checkInputGuardrails(message)
     IN
     turn' = [turn EXCEPT ![t] =
       IF message = <<>> THEN Respond(r, 400)
       ELSE IF ~guardrailCheck.passed
       THEN Respond([r EXCEPT !.guardrailCheck = Some(guardrailCheck),
                              !.result = Returned(BLOCKED_RESPONSE, TRUE, guardrailCheck.reason)],
                    200)
       ELSE [r EXCEPT !.guardrailCheck = Some(guardrailCheck), !.pc = "getActivePrompts"]]
  /\ UNCHANGED <<storeVars, deletion, adminOps, call, versions, auth>>

\* A createTraceLog call of processMessage resolves: the row is inserted, or the
\* insert is rejected and the call throws.
InputBlockLog(r) ==
  [conversationId |-> Some(r.conversationId), traceId |-> None,
   model |-> <<"guardrail-input">>, promptTokens |-> 0, completionTokens |-> 0,
   totalTokens |-> 0, userMessage |-> Some(r.userMessage),
   assistantMessage |-> Some(BLOCKED_RESPONSE),
   guardrailResult |-> Some(OrElse(The(r.guardrailCheck).reason, <<"blocked">>)),
   evaluatorScore |-> None, evaluatorScoreHalf |-> FALSE,
   evaluatorFeedback |-> None, blocked |-> TRUE,
   blockReason |-> Some(OrElse(The(r.guardrailCheck).reason, <<"Guardrail violation">>))]

\* processMessage, the input-guardrail block: createTraceLog, then the canned reply.
TraceInputBlock(t) ==
  LET r == turn[t] IN
  /\ r.pc = "createTraceLog:input"
  /\ serial' = Bump("traceLog")
  /\ IF traceLogAccepted(InputBlockLog(r))
     THEN /\ traceLogs' = insertTraceLog(t, InputBlockLog(r))
          /\ turn' = [turn EXCEPT ![t] =
                        [r EXCEPT !.traceWrites = @ + 1,
                                  !.result = Returned(BLOCKED_RESPONSE, TRUE, The(r.guardrailCheck).reason),
                                  !.pc = "createMessage:assistant"]]
     ELSE /\ UNCHANGED traceLogs
          /\ turn' = [turn EXCEPT ![t] = Respond([r EXCEPT !.result = Raised(FK_VIOLATION)], 500)]
  /\ UNCHANGED <<documents, prompts, conversations, messages, deletion, adminOps, call, versions, auth>>

\* buildSystemPrompt, first read.
\* Mutant: the active prompts are read once and kept for later requests.
GetActivePrompts_Cached(t) ==
  LET readers == {u \in Turns : turn[u].kind # "none" /\ turn[u].pc # "getActivePrompts"} IN
  /\ turn[t].pc = "getActivePrompts"
  /\ turn' = [turn EXCEPT ![t] =
       [@ EXCEPT !.activePrompts = IF readers = {} THEN getActivePrompts
                                   ELSE turn[CHOOSE u \in readers : TRUE].activePrompts,
                 !.promptsReadAt = adminOps,
                 !.pc = "getActiveDocuments"]]
  /\ UNCHANGED <<storeVars, deletion, adminOps, call, versions, auth>>

GetActivePrompts(t) ==
  /\ turn[t].pc = "getActivePrompts"
  /\ turn' = [turn EXCEPT ![t] = [@ EXCEPT !.activePrompts = getActivePrompts,
                                           !.promptsReadAt = adminOps,
                                           !.pc = "getActiveDocuments"]]
  /\ UNCHANGED <<storeVars, deletion, adminOps, call, versions, auth>>

ChatMessages(systemPrompt, previous, userMessage) ==
  <<[role |-> "system", content |-> systemPrompt]>>
    \o [i \in DOMAIN previous |-> [role |-> previous[i].role, content |-> previous[i].content]]
    \o <<[role |-> "user", content |-> userMessage]>>

\* Mutant: the order of the documents in the prompt depends on the request.
GetActiveDocuments_ByRequest(t) ==
  LET r == [turn[t] EXCEPT !.documentsReadAt = adminOps]
      rows == getActiveDocuments
      activeDocuments == IF t = 1 THEN rows ELSE [i \in DOMAIN rows |-> rows[Len(rows) + 1 - i]]
      systemPrompt == composePrompt(r.activePrompts, activeDocuments)
  IN
  /\ r.pc = "getActiveDocuments"
  /\ turn' = [turn EXCEPT ![t] =
       IF r.kind = "persistent"
       THEN [r EXCEPT !.systemPrompt = systemPrompt, !.pc = "getMessages"]
       ELSE [r EXCEPT !.systemPrompt = systemPrompt,
                      !.chatMessages = ChatMessages(systemPrompt, r.history, r.userMessage),
                      !.completionCalls = @ + 1,
                      !.pc = "completion"]]
  /\ UNCHANGED <<storeVars, deletion, adminOps, call, versions, auth>>

\* buildSystemPrompt, second read and the composition; processEphemeralMessage
\* then builds its message list and calls the completion endpoint.
GetActiveDocuments(t) ==
  LET r == [turn[t] EXCEPT !.documentsReadAt = adminOps]
      systemPrompt == composePrompt(r.activePrompts, getActiveDocuments)
  IN
  /\ r.pc = "getActiveDocuments"
  /\ turn' = [turn EXCEPT ![t] =
       IF r.kind = "persistent"
       THEN [r EXCEPT !.systemPrompt = systemPrompt, !.pc = "getMessages"]
       ELSE [r EXCEPT !.systemPrompt = systemPrompt,
                      !.chatMessages = ChatMessages(systemPrompt, r.history, r.userMessage),
                      !.completionCalls = @ + 1,
                      !.pc = "completion"]]
  /\ UNCHANGED <<storeVars, deletion, adminOps, call, versions, auth>>

\* Mutant: a request reads the history only when no other request of the
\* conversation is in flight.
GetMessages_Serialized(t) ==
  LET r == turn[t] IN
  /\ r.pc = "getMessages"
  /\ \A u \in Turns \ {t} :
       turn[u].kind = "persistent" /\ turn[u].conversationId = r.conversationId =>
         turn[u].pc = "done"
  /\ turn' = [turn EXCEPT ![t] =
       [r EXCEPT !.chatMessages = ChatMessages(r.systemPrompt, getMessages(r.conversationId),
                                               r.userMessage),
                 !.completionCalls = @ + 1,
                 !.pc = "completion"]]
  /\ UNCHANGED <<storeVars, deletion, adminOps, call, versions, auth>>

\* processMessage: getMessages, the message list, the call of the completion endpoint.
GetMessages(t) ==
  LET r == turn[t] IN
  /\ r.pc = "getMessages"
  /\ turn' = [turn EXCEPT ![t] =
       [r EXCEPT !.chatMessages = ChatMessages(r.systemPrompt, getMessages(r.conversationId),
                                               r.userMessage),
                 !.completionCalls = @ + 1,
                 !.pc = "completion"]]
  /\ UNCHANGED <<storeVars, deletion, adminOps, call, versions, auth>>
\* The completion call of processMessage resolves: on a throw the handler enters its
\* catch block; on a completion it runs the output guardrail and either goes to
\* record the block or calls the evaluator.
CompletionResolves(t, resp) ==
  LET r == turn[t]
      assistantContent == OrElse(resp.content, NO_CONTENT_RESPONSE)
      outputCheck == checkOutputGuardrails(assistantContent)
  IN
  /\ r.kind = "persistent"
  /\ r.pc = "completion"
  /\ turn' = [turn EXCEPT ![t] =
       IF resp.throws
       THEN [r EXCEPT !.completion = Some(resp), !.error = resp.message,
                      !.pc = "createTraceLog:error"]
       ELSE IF ~outputCheck.passed
       THEN [r EXCEPT !.completion = Some(resp), !.assistantContent = assistantContent,
                      !.outputCheck = Some(outputCheck), !.pc = "createTraceLog:output"]
       ELSE [r EXCEPT !.completion = Some(resp), !.assistantContent = assistantContent,
                      !.outputCheck = Some(outputCheck), !.evaluatorCalls = @ + 1,
                      !.pc = "evaluator"]]
  /\ UNCHANGED <<storeVars, deletion, adminOps, call, versions, auth>>

\* Mutant: the ephemeral path scores its reply as processMessage does.
EphemeralCompletionResolves_Evaluated(t, resp) ==
  LET r == turn[t]
      assistantContent == OrElse(resp.content, NO_CONTENT_RESPONSE)
      outputCheck == checkOutputGuardrails(assistantContent)
  IN
  /\ r.kind = "ephemeral"
  /\ r.pc = "completion"
  /\ turn' = [turn EXCEPT ![t] =
       IF resp.throws
       THEN Respond([r EXCEPT !.completion = Some(resp), !.error = resp.message,
                              !.result = Raised(GENERIC_FAILURE)], 500)
       ELSE IF ~outputCheck.passed
       THEN Respond([r EXCEPT !.completion = Some(resp), !.assistantContent = assistantContent,
                              !.outputCheck = Some(outputCheck),
                              !.result = Returned(SAFE_RESPONSE, TRUE, outputCheck.reason)], 200)
       ELSE Respond([r EXCEPT !.completion = Some(resp), !.assistantContent = assistantContent,
                              !.outputCheck = Some(outputCheck), !.evaluatorCalls = @ + 1,
                              !.result = Returned(assistantContent, FALSE, None)], 200)]
  /\ UNCHANGED <<storeVars, deletion, adminOps, call, versions, auth>>

\* The completion call of processEphemeralMessage resolves.
EphemeralCompletionResolves(t, resp) ==
  LET r == turn[t]
      assistantContent == OrElse(resp.content, NO_CONTENT_RESPONSE)
      outputCheck == checkOutputGuardrails(assistantContent)
  IN
  /\ r.kind = "ephemeral"
  /\ r.pc = "completion"
  /\ turn' = [turn EXCEPT ![t] =
       IF resp.throws
       THEN Respond([r EXCEPT !.completion = Some(resp), !.error = resp.message,
                              !.result = Raised(GENERIC_FAILURE)], 500)
       ELSE IF ~outputCheck.passed
       THEN Respond([r EXCEPT !.completion = Some(resp), !.assistantContent = assistantContent,
                              !.outputCheck = Some(outputCheck),
                              !.result = Returned(SAFE_RESPONSE, TRUE, outputCheck.reason)], 200)
       ELSE Respond([r EXCEPT !.completion = Some(resp), !.assistantContent = assistantContent,
                              !.outputCheck = Some(outputCheck),
                              !.result = Returned(assistantContent, FALSE, None)], 200)]
  /\ UNCHANGED <<storeVars, deletion, adminOps, call, versions, auth>>

\* The evaluator's completion call resolves and runEvaluatorAgent returns.
EvaluatorResolves(t, resp) ==
  /\ turn[t].pc = "evaluator"
  /\ turn' = [turn EXCEPT ![t] = [@ EXCEPT !.evaluation = Some(runEvaluatorAgent(resp)),
                                           !.pc = "createTraceLog:success"]]
  /\ UNCHANGED <<storeVars, deletion, adminOps, call, versions, auth>>

UsageField(resp, field) ==
  IF resp.usage = None THEN 0 ELSE OrElseNum(Some(The(resp.usage)[field]), 0)

\* Mutant: the output-block trace log keeps the generated text.
OutputBlockLog_Generated(r) ==
  LET completion == The(r.completion) IN
  [conversationId |-> Some(r.conversationId),
   traceId |-> IF completion.id = Some(<<>>) THEN None ELSE completion.id,
   model |-> OrElse(completion.model, <<"gpt-4o-mini">>),
   promptTokens |-> UsageField(completion, "prompt_tokens"),
   completionTokens |-> UsageField(completion, "completion_tokens"),
   totalTokens |-> UsageField(completion, "total_tokens"),
   userMessage |-> Some(r.userMessage), assistantMessage |-> Some(r.assistantContent),
   guardrailResult |-> Some(<<"Output blocked: ">> \o OrElse(The(r.outputCheck).reason, <<>>)),
   evaluatorScore |-> Some(0), evaluatorScoreHalf |-> FALSE,
   evaluatorFeedback |-> Some(<<"Response blocked by output guardrails">>),
   blocked |-> TRUE,
   blockReason |-> Some(OrElse(The(r.outputCheck).reason, <<"Output guardrail violation">>))]

OutputBlockLog(r) ==
  LET completion == The(r.completion) IN
  [conversationId |-> Some(r.conversationId),
   traceId |-> IF completion.id = Some(<<>>) THEN None ELSE completion.id,
   model |-> OrElse(completion.model, <<"gpt-4o-mini">>),
   promptTokens |-> UsageField(completion, "prompt_tokens"),
   completionTokens |-> UsageField(completion, "completion_tokens"),
   totalTokens |-> UsageField(completion, "total_tokens"),
   userMessage |-> Some(r.userMessage), assistantMessage |-> Some(SAFE_RESPONSE),
   guardrailResult |-> Some(<<"Output blocked: ">> \o OrElse(The(r.outputCheck).reason, <<>>)),
   evaluatorScore |-> Some(0), evaluatorScoreHalf |-> FALSE,
   evaluatorFeedback |-> Some(<<"Response blocked by output guardrails">>),
   blocked |-> TRUE,
   blockReason |-> Some(OrElse(The(r.outputCheck).reason, <<"Output guardrail violation">>))]

SuccessLog(r) ==
  LET completion == The(r.completion)
      evaluation == The(r.evaluation)
  IN
  [conversationId |-> Some(r.conversationId),
   traceId |-> IF completion.id = Some(<<>>) THEN None ELSE completion.id,
   model |-> OrElse(completion.model, <<"gpt-4o-mini">>),
   promptTokens |-> UsageField(completion, "prompt_tokens"),
   completionTokens |-> UsageField(completion, "completion_tokens"),
   totalTokens |-> UsageField(completion, "total_tokens"),
   userMessage |-> Some(r.userMessage), assistantMessage |-> Some(r.assistantContent),
   guardrailResult |-> Some(<<"passed">>),
   evaluatorScore |-> Some(evaluation.score), evaluatorScoreHalf |-> evaluation.half,
   evaluatorFeedback |-> Some(evaluation.feedback),
   blocked |-> FALSE, blockReason |-> None]

ErrorLog(r) ==
  [conversationId |-> Some(r.conversationId), traceId |-> None,
   model |-> <<"gpt-4o-mini">>, promptTokens |-> 0, completionTokens |-> 0,
   totalTokens |-> 0, userMessage |-> Some(r.userMessage), assistantMessage |-> None,
   guardrailResult |-> Some(<<"error">>), evaluatorScore |-> None,
   evaluatorScoreHalf |-> FALSE,
   evaluatorFeedback |-> Some(r.error), blocked |-> FALSE, blockReason |-> None]

\* A createTraceLog inside the try block resolves: on success processMessage returns
\* result; a rejected insert throws into the catch block.
TraceInTry(t, log, result) ==
  LET r == turn[t] IN
  /\ serial' = Bump("traceLog")
  /\ IF traceLogAccepted(log)
     THEN /\ traceLogs' = insertTraceLog(t, log)
          /\ turn' = [turn EXCEPT ![t] = [r EXCEPT !.traceWrites = @ + 1, !.result = result,
                                                   !.pc = "createMessage:assistant"]]
     ELSE /\ UNCHANGED traceLogs
          /\ turn' = [turn EXCEPT ![t] = [r EXCEPT !.error = rejection(log),
                                                   !.pc = "createTraceLog:error"]]
  /\ UNCHANGED <<documents, prompts, conversations, messages, deletion, adminOps, call, versions, auth>>

\* processMessage, the output-guardrail block.
TraceOutputBlock(t) ==
  /\ turn[t].pc = "createTraceLog:output"
  /\ TraceInTry(t, OutputBlockLog(turn[t]),
                Returned(SAFE_RESPONSE, TRUE, The(turn[t].outputCheck).reason))

\* processMessage, evaluate and record.
TraceSuccess(t) ==
  /\ turn[t].pc = "createTraceLog:success"
  /\ TraceInTry(t, SuccessLog(turn[t]), Returned(turn[t].assistantContent, FALSE, None))

\* processMessage, the catch block: createTraceLog, then the generic failure, which
\* the route answers with status 500.
TraceError(t) ==
  LET r == turn[t] IN
  /\ r.pc = "createTraceLog:error"
  /\ serial' = Bump("traceLog")
  /\ IF traceLogAccepted(ErrorLog(r))
     THEN /\ traceLogs' = insertTraceLog(t, ErrorLog(r))
          /\ turn' = [turn EXCEPT ![t] =
                        Respond([r EXCEPT !.traceWrites = @ + 1,
                                          !.result = Raised(GENERIC_FAILURE)], 500)]
     ELSE /\ UNCHANGED traceLogs
          /\ turn' = [turn EXCEPT ![t] = Respond([r EXCEPT !.result = Raised(FK_VIOLATION)], 500)]
  /\ UNCHANGED <<documents, prompts, conversations, messages, deletion, adminOps, call, versions, auth>>

\* The route stores processMessage's reply as the assistant message and answers.
AssistantMessage(t) ==
  LET r == turn[t] IN
  /\ r.pc = "createMessage:assistant"
  /\ serial' = Bump("message")
  /\ IF messageAccepted(r.conversationId)
     THEN /\ messages' = insertMessage(t, r.conversationId, "assistant", r.result.content)
          /\ turn' = [turn EXCEPT ![t] = Respond(r, 200)]
     ELSE /\ UNCHANGED messages
          /\ turn' = [turn EXCEPT ![t] = Respond(r, 500)]
  /\ UNCHANGED <<documents, prompts, conversations, traceLogs, deletion, adminOps, call, versions, auth>>
(***************************************************************************)
(* Conversation routes.                                                    *)
(***************************************************************************)
\* POST /api/conversations.
CreateConversation ==
  /\ serial.conversation <= MaxConversations
  /\ conversations' = conversations \cup {serial.conversation}
  /\ serial' = Bump("conversation")
  /\ UNCHANGED <<documents, prompts, messages, traceLogs, turn, deletion, adminOps, call, versions, auth>>

\* DELETE /api/conversations/:id, deleteConversation's first statement.
DeleteMessages(c) ==
  /\ deletion.pc = "idle"
  /\ messages' = SelectSeq(messages, LAMBDA m : m.conversationId # c)
  /\ deletion' = [pc |-> "traceLogs", id |-> c]
  /\ UNCHANGED <<documents, prompts, conversations, traceLogs, serial, turn, adminOps, call, versions, auth>>

\* deleteConversation's second statement.
DeleteTraceLogs ==
  /\ deletion.pc = "traceLogs"
  /\ traceLogs' = SelectSeq(traceLogs, LAMBDA l : l.conversationId # Some(deletion.id))
  /\ deletion' = [deletion EXCEPT !.pc = "conversations"]
  /\ UNCHANGED <<documents, prompts, conversations, messages, serial, turn, adminOps, call, versions, auth>>

\* deleteConversation's third statement, with the foreign keys' actions: messages
\* of the conversation are deleted, trace logs of it get a null conversation.
DeleteConversationRow ==
  /\ deletion.pc = "conversations"
  /\ conversations' = conversations \ {deletion.id}
  /\ messages' = SelectSeq(messages, LAMBDA m : m.conversationId # deletion.id)
  /\ traceLogs' = [i \in DOMAIN traceLogs |->
                     IF traceLogs[i].conversationId = Some(deletion.id)
                     THEN [traceLogs[i] EXCEPT !.conversationId = None]
                     ELSE traceLogs[i]]
  /\ deletion' = [deletion EXCEPT !.pc = "done"]
  /\ UNCHANGED <<documents, prompts, serial, turn, adminOps, call, versions, auth>>

(***************************************************************************)
(* Admin routes on documents and prompts.                                  *)
(***************************************************************************)
\* POST /api/documents.
CreateDocument(doc) ==
  /\ adminOps < MaxAdminOps
  /\ documents' = documents \cup
       {[id |-> serial.document, title |-> doc.title, category |-> doc.category,
         content |-> doc.content, isActive |-> doc.isActive, createdAt |-> serial.clock]}
  /\ serial' = [serial EXCEPT !.document = @ + 1, !.clock = @ + 1]
  /\ adminOps' = adminOps + 1
  /\ UNCHANGED <<prompts, conversations, messages, traceLogs, turn, deletion, call>>
  /\ versions' = Append(versions, ActiveNow')

\* The update of a row by a partial record: the fields the record gives are set.
applyPatch(row, patch) ==
  [row EXCEPT !.content = IF patch.content = None THEN @ ELSE The(patch.content),
              !.isActive = IF patch.isActive = None THEN @ ELSE The(patch.isActive)]

\* PATCH /api/documents/:id.
UpdateDocument(id, patch) ==
  /\ adminOps < MaxAdminOps
  /\ \E d \in documents : d.id = id
  /\ documents' = {IF d.id = id THEN applyPatch(d, patch) ELSE d : d \in documents}
  /\ adminOps' = adminOps + 1
  /\ UNCHANGED <<prompts, conversations, messages, traceLogs, serial, turn, deletion, call>>
  /\ versions' = Append(versions, ActiveNow')

\* DELETE /api/documents/:id.
DeleteDocument(id) ==
  /\ adminOps < MaxAdminOps
  /\ \E d \in documents : d.id = id
  /\ documents' = {d \in documents : d.id # id}
  /\ adminOps' = adminOps + 1
  /\ UNCHANGED <<prompts, conversations, messages, traceLogs, serial, turn, deletion, call>>
  /\ versions' = Append(versions, ActiveNow')

\* POST /api/prompts.
CreatePrompt(prompt) ==
  /\ adminOps < MaxAdminOps
  /\ prompts' = prompts \cup
       {[id |-> serial.prompt, name |-> prompt.name, content |-> prompt.content,
         type |-> prompt.type, isActive |-> prompt.isActive, createdAt |-> serial.clock]}
  /\ serial' = [serial EXCEPT !.prompt = @ + 1, !.clock = @ + 1]
  /\ adminOps' = adminOps + 1
  /\ UNCHANGED <<documents, conversations, messages, traceLogs, turn, deletion, call>>
  /\ versions' = Append(versions, ActiveNow')

\* PATCH /api/prompts/:id.
UpdatePrompt(id, patch) ==
  /\ adminOps < MaxAdminOps
  /\ \E q \in prompts : q.id = id
  /\ prompts' = {IF q.id = id THEN applyPatch(q, patch) ELSE q : q \in prompts}
  /\ adminOps' = adminOps + 1
  /\ UNCHANGED <<documents, conversations, messages, traceLogs, serial, turn, deletion, call>>
  /\ versions' = Append(versions, ActiveNow')

\* DELETE /api/prompts/:id.
DeletePrompt(id) ==
  /\ adminOps < MaxAdminOps
  /\ \E q \in prompts : q.id = id
  /\ prompts' = {q \in prompts : q.id # id}
  /\ adminOps' = adminOps + 1
  /\ UNCHANGED <<documents, conversations, messages, traceLogs, serial, turn, deletion, call>>
  /\ versions' = Append(versions, ActiveNow')

(***************************************************************************)
(* Chat requests and conversation routes, interleaved at every storage and *)
(* endpoint call.  The knowledge base only reaches a request through the   *)
(* system prompt it sends upstream, and the upstream answer is arbitrary,  *)
(* so the admin routes are interleaved with prompt composition separately  *)
(* (PromptSpec).                                                           *)
(***************************************************************************)
Next ==
  \/ \E t \in Turns, c \in ConversationIds, content \in UserTexts : PostMessage(t, c, content)
  \/ \E t \in Turns, message \in UserTexts, history \in Histories : PostChat(t, message, history)
  \/ \E t \in Turns : TraceInputBlock(t)
  \/ \E t \in Turns : GetActivePrompts(t)
  \/ \E t \in Turns : GetActiveDocuments(t)
  \/ \E t \in Turns : GetMessages(t)
  \/ \E t \in Turns, resp \in CompletionResponses : CompletionResolves(t, resp)
  \/ \E t \in Turns, resp \in CompletionResponses : EphemeralCompletionResolves(t, resp)
  \/ \E t \in Turns, resp \in TurnEvaluatorResponses : EvaluatorResolves(t, resp)
  \/ \E t \in Turns : TraceOutputBlock(t)
  \/ \E t \in Turns : TraceSuccess(t)
  \/ \E t \in Turns : TraceError(t)
  \/ \E t \in Turns : AssistantMessage(t)
  \/ CreateConversation
  \/ \E c \in ConversationIds : DeleteMessages(c)
  \/ DeleteTraceLogs
  \/ DeleteConversationRow

Spec == Init /\ [][Next]_vars

(***************************************************************************)
(* Admin routes interleaved with the prompt compositions of chat requests  *)
(* (each request stops when it calls the completion endpoint).             *)
(***************************************************************************)
PromptNext ==
  \/ \E t \in Turns, history \in Histories : PostChat(t, <<"hello">>, history)
  \/ \E t \in Turns : GetActivePrompts(t)
  \/ \E t \in Turns : GetActiveDocuments(t)
  \/ \E doc \in DocumentInputs : CreateDocument(doc) /\ UNCHANGED auth
  \/ \E id \in 1..(serial.document - 1), patch \in DocumentPatches :
       UpdateDocument(id, patch) /\ UNCHANGED auth
  \/ \E id \in 1..(serial.document - 1) : DeleteDocument(id) /\ UNCHANGED auth
  \/ \E prompt \in PromptInputs : CreatePrompt(prompt) /\ UNCHANGED auth
  \/ \E id \in 1..(serial.prompt - 1), patch \in PromptPatches :
       UpdatePrompt(id, patch) /\ UNCHANGED auth
  \/ \E id \in 1..(serial.prompt - 1) : DeletePrompt(id) /\ UNCHANGED auth

PromptSpec == Init /\ [][PromptNext]_vars

(***************************************************************************)
(* Admin sessions.  A request carries the id of its session; a session     *)
(* that was never logged in, or was destroyed, has no admin flag.          *)
(***************************************************************************)
ADMIN_USERNAME == "tech_admin"
ADMIN_PASSWORD == "P@ssword01"

\* What a login request can carry in each field of its body (None: no such field).
Usernames == {Some(ADMIN_USERNAME), Some("TECH_ADMIN"), None}
Passwords == {Some(ADMIN_PASSWORD), Some("p@ssword01"), None}

\* Mutant: the guard lets every request through.
requireAdmin_Open(sid) == TRUE

\* requireAdmin: req.session?.isAdmin.
requireAdmin(sid) == auth.isAdmin[sid]

Request(route, sid, status, storageCalls) ==
  [route |-> route, sid |-> sid, username |-> None, password |-> None,
   status |-> status, storageCalls |-> storageCalls, isAdmin |-> FALSE]

\* POST /api/admin/login.
Login(sid, username, password) ==
  LET ok == username = Some(ADMIN_USERNAME) /\ password = Some(ADMIN_PASSWORD)
      r == [Request("POST /api/admin/login", sid, IF ok THEN 200 ELSE 401, 0)
              EXCEPT !.username = username, !.password = password]
  IN
  /\ auth' = [isAdmin |-> IF ok THEN [auth.isAdmin EXCEPT ![sid] = TRUE] ELSE auth.isAdmin,
              last |-> r]
  /\ UNCHANGED <<storeVars, turn, deletion, adminOps, call, versions>>

\* POST /api/admin/logout: the session is destroyed.
Logout(sid) ==
  /\ auth' = [isAdmin |-> [auth.isAdmin EXCEPT ![sid] = FALSE],
              last |-> Request("POST /api/admin/logout", sid, 200, 0)]
  /\ UNCHANGED <<storeVars, turn, deletion, adminOps, call, versions>>

\* GET /api/admin/session.
GetSession(sid) ==
  /\ auth' = [auth EXCEPT !.last = [Request("GET /api/admin/session", sid, 200, 0)
                                      EXCEPT !.isAdmin = auth.isAdmin[sid]]]
  /\ UNCHANGED <<storeVars, turn, deletion, adminOps, call, versions>>

\* requireAdmin calls next(): the handler runs and answers with status.
Admit(sid, route, status, storageCalls) ==
  /\ requireAdmin(sid)
  /\ auth' = [auth EXCEPT !.last = Request(route, sid, status, storageCalls)]

\* requireAdmin answers 401 and the handler does not run.
Deny(sid, route) ==
  /\ ~requireAdmin(sid)
  /\ auth' = [auth EXCEPT !.last = Request(route, sid, 401, 0)]
  /\ UNCHANGED <<storeVars, turn, deletion, adminOps, call, versions>>

\* The admin-only routes that read one table and write nothing.
ListRoutes ==
  {"GET /api/documents", "GET /api/prompts", "GET /api/trace-logs",
   "GET /api/trace-logs/stats", "GET /api/trace-logs/conversation/:id"}

AdminList(sid, route) ==
  \/ /\ Admit(sid, route, 200, 1)
     /\ UNCHANGED <<storeVars, turn, deletion, adminOps, call, versions>>
  \/ Deny(sid, route)

\* GET /api/documents/:id and GET /api/prompts/:id.
AdminGet(sid, route, rows, id) ==
  \/ /\ Admit(sid, route, IF \E r \in rows : r.id = id THEN 200 ELSE 404, 1)
     /\ UNCHANGED <<storeVars, turn, deletion, adminOps, call, versions>>
  \/ Deny(sid, route)

\* POST /api/documents/upload with a file text can be extracted from: the handler
\* answers with the text and calls no storage method.
AdminUpload(sid) ==
  \/ /\ Admit(sid, "POST /api/documents/upload", 200, 0)
     /\ UNCHANGED <<storeVars, turn, deletion, adminOps, call, versions>>
  \/ Deny(sid, "POST /api/documents/upload")

PostDocuments(sid, doc) ==
  \/ Admit(sid, "POST /api/documents", 201, 1) /\ CreateDocument(doc)
  \/ Deny(sid, "POST /api/documents")

PatchDocument(sid, id, patch) ==
  \/ Admit(sid, "PATCH /api/documents/:id", 200, 1) /\ UpdateDocument(id, patch)
  \/ Deny(sid, "PATCH /api/documents/:id")

DeleteDocumentRoute(sid, id) ==
  \/ Admit(sid, "DELETE /api/documents/:id", 204, 1) /\ DeleteDocument(id)
  \/ Deny(sid, "DELETE /api/documents/:id")

PostPrompts(sid, prompt) ==
  \/ Admit(sid, "POST /api/prompts", 201, 1) /\ CreatePrompt(prompt)
  \/ Deny(sid, "POST /api/prompts")

PatchPrompt(sid, id, patch) ==
  \/ Admit(sid, "PATCH /api/prompts/:id", 200, 1) /\ UpdatePrompt(id, patch)
  \/ Deny(sid, "PATCH /api/prompts/:id")

DeletePromptRoute(sid, id) ==
  \/ Admit(sid, "DELETE /api/prompts/:id", 204, 1) /\ DeletePrompt(id)
  \/ Deny(sid, "DELETE /api/prompts/:id")

AuthNext ==
  \/ \E sid \in SessionIds, username \in Usernames, password \in Passwords :
       Login(sid, username, password)
  \/ \E sid \in SessionIds : Logout(sid)
  \/ \E sid \in SessionIds : GetSession(sid)
  \/ \E sid \in SessionIds, route \in ListRoutes : AdminList(sid, route)
  \/ \E sid \in SessionIds, id \in 1..serial.document :
       AdminGet(sid, "GET /api/documents/:id", documents, id)
  \/ \E sid \in SessionIds, id \in 1..serial.prompt :
       AdminGet(sid, "GET /api/prompts/:id", prompts, id)
  \/ \E sid \in SessionIds : AdminUpload(sid)
  \/ \E sid \in SessionIds, doc \in DocumentInputs : PostDocuments(sid, doc)
  \/ \E sid \in SessionIds, id \in 1..(serial.document - 1), patch \in DocumentPatches :
       PatchDocument(sid, id, patch)
  \/ \E sid \in SessionIds, id \in 1..(serial.document - 1) : DeleteDocumentRoute(sid, id)
  \/ \E sid \in SessionIds, prompt \in PromptInputs : PostPrompts(sid, prompt)
  \/ \E sid \in SessionIds, id \in 1..(serial.prompt - 1), patch \in PromptPatches :
       PatchPrompt(sid, id, patch)
  \/ \E sid \in SessionIds, id \in 1..(serial.prompt - 1) : DeletePromptRoute(sid, id)

AuthSpec == Init /\ [][AuthNext]_vars

(***************************************************************************)
(* Function harness: the pure functions applied to every input of the      *)
(* bounded input sets.                                                     *)
(***************************************************************************)
\* The result of the call made just before, when it was a call of fn with arg.
Before(fn, arg) == IF call.fn = fn /\ call.arg = arg THEN Some(call.result) ELSE None

CallCheckInput(text) ==
  /\ call' = [fn |-> "checkInputGuardrails", arg |-> text,
              result |-> checkInputGuardrails(text),
              before |-> Before("checkInputGuardrails", text),
              lastIndex |-> lastIndexAfter(piiPatternsInput, text)]
  /\ UNCHANGED <<storeVars, turn, deletion, adminOps, versions, auth>>

CallCheckOutput(text) ==
  /\ call' = [fn |-> "checkOutputGuardrails", arg |-> text,
              result |-> checkOutputGuardrails(text),
              before |-> Before("checkOutputGuardrails", text),
              lastIndex |-> lastIndexAfter(piiPatternsOutput, text)]
  /\ UNCHANGED <<storeVars, turn, deletion, adminOps, versions, auth>>

CallEvaluator(resp) ==
  /\ call' = [fn |-> "runEvaluatorAgent", arg |-> resp, result |-> runEvaluatorAgent(resp),
              before |-> Before("runEvaluatorAgent", resp),
              lastIndex |-> call.lastIndex]
  /\ UNCHANGED <<storeVars, turn, deletion, adminOps, versions, auth>>

FnNext ==
  \/ \E text \in Texts : CallCheckInput(text)
  \/ \E text \in Texts : CallCheckOutput(text)
  \/ \E resp \in EvaluatorResponses : CallEvaluator(resp)

FnSpec == Init /\ [][FnNext]_vars
(***************************************************************************)
(* Properties.                                                             *)
(***************************************************************************)
Persistent(t) == turn[t].kind = "persistent"
Ephemeral(t) == turn[t].kind = "ephemeral"

\* processMessage or processEphemeralMessage was called for t and has finished.
Finished(t) == turn[t].result.kind # "pending"

\* The rows request t wrote that are still stored.
TraceLogsOf(t) == {traceLogs[i] : i \in {j \in DOMAIN traceLogs : traceLogs[j].turn = t}}
MessagesOf(t, role) ==
  {messages[i] : i \in {j \in DOMAIN messages : messages[j].turn = t /\ messages[j].role = role}}

MatchesPII(text) ==
  \E i \in DOMAIN text :
    text[i] \in Matching("ssn") \cup Matching("phone") \cup Matching("email") \cup Matching("street")

ContainsInjection(text) ==
  \E i \in DOMAIN text, k \in DOMAIN injectionPatterns :
    injectionPatterns[k] \in Substrings(LowerFragment(text[i]))

\* C1: every call of processMessage that has finished, by returning or by raising,
\* has persisted exactly one trace log row.
C1_ExactlyOneTraceLog ==
  \A t \in Turns : Persistent(t) /\ Finished(t) => turn[t].traceWrites = 1

\* C2: a user text that matches a PII pattern (SSN, phone, email, street address)
\* fails checkInputGuardrails with the PII reason, also when it contains an injection
\* phrase, and its request, persistent or ephemeral, calls neither the completion
\* endpoint nor the evaluator.
C2_PiiInputBlocked ==
  \A t \in Turns :
    turn[t].kind # "none" /\ MatchesPII(turn[t].userMessage) =>
      /\ checkInputGuardrails(turn[t].userMessage) = [passed |-> FALSE, reason |-> Some(PII_REASON)]
      /\ turn[t].guardrailCheck \in {None, Some([passed |-> FALSE, reason |-> Some(PII_REASON)])}
      /\ turn[t].result.kind = "returned" => turn[t].result.blockReason = Some(PII_REASON)
      /\ turn[t].completionCalls = 0
      /\ turn[t].evaluatorCalls = 0
      /\ turn[t].completion = None

\* C2 witness: a persistent and an ephemeral request, one with a street address and
\* one with an e-mail address and an injection phrase, both answered as blocked.
C2_Witness ==
  \E t, u \in Turns :
    /\ Persistent(t) /\ Ephemeral(u)
    /\ {turn[t].userMessage, turn[u].userMessage}
         = {<<"12 OAK STREET">>, <<"pat@example.com", "Jailbreak">>}
    /\ turn[t].pc = "done" /\ turn[t].status = 200 /\ turn[t].result.blocked
    /\ turn[u].pc = "done" /\ turn[u].status = 200 /\ turn[u].result.blocked

\* C3: a user text that contains a listed injection phrase in any letter case and
\* matches no PII pattern fails checkInputGuardrails with the scope reason, which is
\* not the PII reason, and its request makes no model call.
C3_InjectionBlocked ==
  /\ SCOPE_REASON # PII_REASON
  /\ \A t \in Turns :
       /\ turn[t].kind # "none"
       /\ ContainsInjection(turn[t].userMessage)
       /\ ~MatchesPII(turn[t].userMessage)
       => /\ checkInputGuardrails(turn[t].userMessage)
               = [passed |-> FALSE, reason |-> Some(SCOPE_REASON)]
          /\ turn[t].guardrailCheck \in {None, Some([passed |-> FALSE, reason |-> Some(SCOPE_REASON)])}
          /\ turn[t].result.kind = "returned" => turn[t].result.blockReason = Some(SCOPE_REASON)
          /\ turn[t].completionCalls = 0
          /\ turn[t].evaluatorCalls = 0
          /\ turn[t].completion = None

\* C3 witness: an upper-case injection phrase, blocked with the scope reason.
C3_Witness ==
  \E t \in Turns :
    /\ turn[t].userMessage = <<"IGNORE PREVIOUS">>
    /\ turn[t].pc = "done" /\ turn[t].status = 200
    /\ turn[t].result.blocked /\ turn[t].result.blockReason = Some(SCOPE_REASON)
MatchesOutputPII(text) ==
  \E i \in DOMAIN text : text[i] \in Matching("ssn") \cup Matching("phone") \cup Matching("email")

HasSensitiveKeyword(text) ==
  \E i \in DOMAIN text, k \in DOMAIN sensitiveKeywords :
    sensitiveKeywords[k] \in Substrings(LowerFragment(text[i]))

HasSafeHarbor(text) ==
  \E i \in DOMAIN text : {"we do not", "never share"} \cap Substrings(LowerFragment(text[i])) # {}

\* C4: for a generated reply that matches no PII pattern, checkOutputGuardrails fails
\* exactly when the lower-cased reply contains a sensitive keyword and neither
\* safe-harbor phrase; a reply with a keyword and a safe-harbor phrase passes.
C4_OutputKeywordCheck ==
  call.fn = "checkOutputGuardrails" /\ ~MatchesOutputPII(call.arg) =>
    /\ ~call.result.passed <=> (HasSensitiveKeyword(call.arg) /\ ~HasSafeHarbor(call.arg))
    /\ call.result.passed => call.result.reason = None

\* C4 witness: a reply with a sensitive keyword in one place and an upper-case
\* safe-harbor phrase in another has been checked and passed.
C4_Witness ==
  /\ call.fn = "checkOutputGuardrails"
  /\ call.arg = <<"Medical Record", "Never Share">>
  /\ call.result.passed

\* The clamp of n into [0, 100].
Clamp(n) == IF n < 0 THEN 0 ELSE IF n > 100 THEN 100 ELSE n

\* C5: for every score the evaluator's model call returns, runEvaluatorAgent returns
\* the clamp of that score into [0, 100] (a score inside the range, 0 included, is
\* returned unchanged), and 70 when the score is missing.
C5_ScoreIsClamp ==
  /\ call.fn = "runEvaluatorAgent"
  /\ ~call.arg.throws
  /\ call.arg.content.kind = "json"
  => /\ call.result.score \in 0..100
     /\ call.result.half => call.result.score < 100
     /\ call.arg.content.score = None => call.result.score = 70 /\ ~call.result.half
     /\ call.arg.content.score # None =>
          LET n == The(call.arg.content.score) IN
          /\ call.result.score = Clamp(n)
          /\ call.result.half <=> (call.arg.content.half /\ 0 <= n /\ n < 100)
\* C6: no step of processEphemeralMessage, whether the request is blocked on input,
\* blocked on output, succeeds or fails upstream, writes a trace log or calls the
\* evaluator, and each such step leaves the stored trace logs and messages as they were.
C6_EphemeralWritesNothing ==
  [][\A t \in Turns :
       turn'[t].kind = "ephemeral" /\ turn'[t] # turn[t] =>
         /\ traceLogs' = traceLogs
         /\ messages' = messages
         /\ turn'[t].evaluatorCalls = 0
         /\ turn'[t].evaluation = None
         /\ turn'[t].traceWrites = 0]_vars

\* C6 witness: one ephemeral request answered with the generated reply and one
\* failed upstream, after both called the completion endpoint.
C6_Witness ==
  \E t, u \in Turns :
    /\ Ephemeral(t) /\ Ephemeral(u)
    /\ turn[t].pc = "done" /\ turn[t].result.kind = "returned" /\ ~turn[t].result.blocked
    /\ turn[t].completionCalls = 1
    /\ turn[u].pc = "done" /\ turn[u].result.kind = "raised" /\ turn[u].completionCalls = 1
\* buildSystemPrompt has returned in request t.
Composed(t) == turn[t].kind # "none" /\ turn[t].pc \notin {"getActivePrompts", "getActiveDocuments", "done"}

\* The two reads of request t and the two reads of request u saw the same version
\* of the knowledge base: no document or prompt was written between the two calls.
NoChangeBetween(t, u) ==
  /\ turn[t].promptsReadAt = turn[t].documentsReadAt
  /\ turn[u].promptsReadAt = turn[u].documentsReadAt
  /\ turn[t].promptsReadAt = turn[u].promptsReadAt

SamePromptForSameData ==
  \A t, u \in Turns :
    Composed(t) /\ Composed(u) /\ NoChangeBetween(t, u) => turn[t].systemPrompt = turn[u].systemPrompt

InputBlocked(t) ==
  Persistent(t) /\ turn[t].guardrailCheck # None /\ ~The(turn[t].guardrailCheck).passed

\* The completion call of processMessage threw in request t.
CompletionThrew(t) ==
  Persistent(t) /\ turn[t].completion # None /\ The(turn[t].completion).throws

\* The output check failed on the generated text of request t.
OutputBlocked(t) ==
  turn[t].kind # "none" /\ turn[t].outputCheck # None /\ ~The(turn[t].outputCheck).passed

\* Text a contains text b.
Contains(a, b) == \E i \in 0..Len(a) : i + Len(b) <= Len(a) /\ SubSeq(a, i + 1, i + Len(b)) = b

\* What request t has stored and answered on the upstream-failure path.
ErrorPathFields(t) ==
  /\ \A row \in TraceLogsOf(t) :
       /\ ~row.blocked /\ row.blockReason = None
       /\ row.promptTokens = 0 /\ row.completionTokens = 0 /\ row.totalTokens = 0
       /\ row.guardrailResult = Some(<<"error">>)
       /\ row.evaluatorScore = None
       /\ row.assistantMessage = None
       /\ row.evaluatorFeedback = Some(The(turn[t].completion).message)
  /\ turn[t].result.kind # "returned"
  /\ turn[t].result.kind = "raised" =>
       ~Contains(turn[t].result.message, The(turn[t].completion).message)
  /\ turn[t].result = Raised(GENERIC_FAILURE) <=> turn[t].traceWrites = 1

\* C8: when the completion call of processMessage throws, a trace log is persisted
\* with blocked false, the three token counts 0, guardrailResult "error", no evaluator
\* score, no assistant text and the upstream error message as feedback, and after
\* that write processMessage raises the fixed generic error, whose message does not
\* contain the upstream error message.
C8_UpstreamFailureTraced ==
  \A t \in Turns :
    CompletionThrew(t) =>
      /\ ErrorPathFields(t)
      /\ Finished(t) => turn[t].traceWrites = 1 /\ turn[t].result = Raised(GENERIC_FAILURE)

\* What request t has stored and answered on the input-block path.
InputBlockFields(t) ==
  LET reason == The(turn[t].guardrailCheck).reason IN
  /\ reason # None
  /\ \A row \in TraceLogsOf(t) :
       /\ row.blocked
       /\ row.promptTokens = 0 /\ row.completionTokens = 0 /\ row.totalTokens = 0
       /\ row.model = <<"guardrail-input">>
       /\ row.traceId = None
       /\ row.guardrailResult = reason
       /\ row.blockReason = reason
  /\ turn[t].result.kind = "returned" =>
       turn[t].result = Returned(BLOCKED_RESPONSE, TRUE, reason)
  /\ turn[t].result.kind = "returned" <=> turn[t].traceWrites = 1

\* C9: when the input check of processMessage fails, the reply is the canned refusal
\* with blocked true and the check's reason as blockReason, and the persisted trace
\* log has blocked true, token counts 0/0/0, model "guardrail-input", no upstream
\* request id and the triggering reason as guardrail verdict and as block reason.
C9_InputBlockReplyAndTrace ==
  \A t \in Turns :
    InputBlocked(t) =>
      /\ InputBlockFields(t)
      /\ Finished(t) => turn[t].traceWrites = 1 /\ turn[t].result.kind = "returned"

\* What request t has stored and answered on the output-block path.
OutputBlockFields(t) ==
  LET r == turn[t]
      reason == The(r.outputCheck).reason
      completion == The(r.completion)
  IN
  /\ r.evaluatorCalls = 0 /\ r.evaluation = None
  /\ r.assistantContent # SAFE_RESPONSE
  /\ r.result.content # r.assistantContent
  /\ \A m \in MessagesOf(t, "assistant") : m.content = SAFE_RESPONSE
  /\ \A row \in TraceLogsOf(t) :
       /\ row.assistantMessage # Some(r.assistantContent)
       /\ row.userMessage = Some(r.userMessage)
       /\ row.evaluatorFeedback # Some(r.assistantContent)
       /\ row.guardrailResult # Some(r.assistantContent)
       /\ row.blockReason # Some(r.assistantContent)
  /\ r.result.kind = "returned" => r.result = Returned(SAFE_RESPONSE, TRUE, reason)
  /\ r.result.kind = "returned" /\ Persistent(t) =>
       /\ r.traceWrites = 1
       /\ \A row \in TraceLogsOf(t) :
            /\ row.blocked
            /\ row.assistantMessage = Some(SAFE_RESPONSE)
            /\ row.model = OrElse(completion.model, <<"gpt-4o-mini">>)
            /\ completion.usage # None =>
                 /\ row.promptTokens = The(completion.usage).prompt_tokens
                 /\ row.completionTokens = The(completion.usage).completion_tokens
                 /\ row.totalTokens = The(completion.usage).total_tokens
            /\ row.evaluatorScore = Some(0)
            /\ row.evaluatorFeedback = Some(<<"Response blocked by output guardrails">>)

\* C10: when the output check fails on the generated text, that text is never
\* returned to the caller, never stored as a conversation message and never stored
\* in a trace log: the reply is the safety fallback with blocked true, the trace log
\* has blocked true, the model name and token usage of the completion, evaluator
\* score 0 and the fixed block feedback, and the evaluator is not called.
C10_OutputBlockHidesGeneratedText ==
  \A t \in Turns :
    OutputBlocked(t) =>
      /\ OutputBlockFields(t)
      /\ Finished(t) => turn[t].result.kind = "returned"
      /\ Finished(t) /\ Persistent(t) => turn[t].traceWrites = 1
\* The completion of request t succeeded with a generated text that passed the
\* output check (processMessage).
Generated(t) ==
  /\ Persistent(t)
  /\ turn[t].completion # None /\ ~The(turn[t].completion).throws
  /\ The(turn[t].completion).content \notin {None, Some(<<>>)}
  /\ turn[t].outputCheck # None /\ The(turn[t].outputCheck).passed

\* What request t has stored and answered on the success path.
SuccessFields(t) ==
  LET r == turn[t]
      completion == The(r.completion)
  IN
  /\ r.assistantContent = The(completion.content)
  /\ r.result.kind = "returned" =>
       /\ r.result = Returned(The(completion.content), FALSE, None)
       /\ r.evaluation # None
       /\ r.traceWrites = 1
       /\ \A row \in TraceLogsOf(t) :
            /\ ~row.blocked /\ row.blockReason = None
            /\ row.guardrailResult = Some(<<"passed">>)
            /\ row.assistantMessage = completion.content
            /\ completion.usage # None =>
                 /\ row.promptTokens = The(completion.usage).prompt_tokens
                 /\ row.completionTokens = The(completion.usage).completion_tokens
                 /\ row.totalTokens = The(completion.usage).total_tokens
            /\ row.evaluatorScore = Some(The(r.evaluation).score)
            /\ row.evaluatorFeedback = Some(The(r.evaluation).feedback)

\* C11: when the completion succeeds and the generated text passes the output
\* check, processMessage returns the generated text unchanged with blocked false,
\* and the persisted trace log has blocked false, guardrail result "passed", the
\* completion's usage counts and the score and feedback the evaluator returned.
C11_SuccessReplyAndTrace ==
  \A t \in Turns :
    Generated(t) =>
      /\ SuccessFields(t)
      /\ Finished(t) => turn[t].result.kind = "returned" /\ turn[t].traceWrites = 1

\* What runEvaluatorAgent returns from its catch block.
EVALUATOR_FALLBACK ==
  [score |-> 70, half |-> FALSE,
   feedback |-> <<"Evaluator unavailable - default score applied.">>, traceId |-> None]

PriorMessages(t, c) == SelectSeq(messages, LAMBDA m : m.conversationId = c /\ m.turn # t)

\* C13: the message list a persistent request sends to the completion endpoint is
\* the system prompt, then the messages of the conversation's prior turns in
\* chronological order, then the new user message, which appears exactly once, as
\* the last element.
C13_MessageListOrder ==
  [][\A t \in Turns :
       Persistent(t) /\ turn[t].pc = "getMessages" /\ turn'[t].pc = "completion" =>
         turn'[t].chatMessages
           = ChatMessages(turn[t].systemPrompt, PriorMessages(t, turn[t].conversationId),
                          turn[t].userMessage)]_vars
SECTION_HEADER == "\n\nADDITIONAL INSTRUCTIONS:\n"

\* The composed prompt has the "ADDITIONAL INSTRUCTIONS" section.
HasInstructionSection(systemPrompt) ==
  \E i \in DOMAIN systemPrompt : systemPrompt[i] = SECTION_HEADER

\* The text of the section: what follows its header.
InstructionSection(systemPrompt) ==
  LET i == CHOOSE j \in DOMAIN systemPrompt : systemPrompt[j] = SECTION_HEADER
  IN SubSeq(systemPrompt, i + 1, Len(systemPrompt))

\* C14: the composed prompt has the "ADDITIONAL INSTRUCTIONS" section if and only if
\* at least one prompt row was active when buildSystemPrompt read them, and the
\* section then holds the contents of all active prompts and of no inactive one.
C14_InstructionSection ==
  [][\A t \in Turns :
       turn[t].pc = "getActivePrompts" /\ turn'[t].pc = "getActiveDocuments" =>
         LET active == {q \in prompts : q.isActive}
             systemPrompt == composePrompt(turn'[t].activePrompts, getActiveDocuments)
         IN /\ HasInstructionSection(systemPrompt) <=> active # {}
            /\ HasInstructionSection(systemPrompt) =>
                 InstructionSection(systemPrompt)
                   = join([i \in 1..Cardinality(active) |-> orderByDescCreatedAt(active)[i].content],
                          <<"\n\n">>)]_vars
\* The knowledge-base section of a composed prompt: what follows the preamble, up
\* to the "ADDITIONAL INSTRUCTIONS" header.
KnowledgeSection(systemPrompt) ==
  LET last == IF HasInstructionSection(systemPrompt)
              THEN (CHOOSE j \in DOMAIN systemPrompt : systemPrompt[j] = SECTION_HEADER) - 1
              ELSE Len(systemPrompt)
  IN SubSeq(systemPrompt, 2, last)

\* The sequences that list every row of the set once, most recently created first.
RecencyOrders(rows) ==
  { order \in [1..Cardinality(rows) -> rows] :
      /\ \A r \in rows : \E i \in DOMAIN order : order[i] = r
      /\ \A i, j \in DOMAIN order : i < j => order[i].createdAt >= order[j].createdAt }

\* C15: after any sequence of admin create, update and delete operations on
\* documents, the knowledge-base section of the composed prompt lists exactly the
\* documents that are active when buildSystemPrompt reads them, each once, most
\* recently created first; an inactive or deleted document is not listed.
C15_KnowledgeSection ==
  [][\A t \in Turns :
       turn[t].pc = "getActiveDocuments" /\ turn'[t].pc # "getActiveDocuments" =>
         /\ turn'[t].systemPrompt[1] = BASE_PREAMBLE
         /\ \E order \in RecencyOrders({d \in documents : d.isActive}) :
              KnowledgeSection(turn'[t].systemPrompt)
                = join([i \in DOMAIN order |-> renderDocument(order[i])], <<"\n\n">>)]_vars

\* C15 witness: a request has composed its prompt after two admin writes that left
\* an inactive document, or removed one, and a document created after start-up.
C15_Witness ==
  \E t \in Turns :
    /\ Composed(t) /\ turn[t].documentsReadAt = 2 /\ adminOps = 2
    /\ \E d \in documents : d.isActive /\ d.id >= 3
    /\ (\E d \in documents : ~d.isActive) \/ Cardinality(documents) = 2
    /\ Len(KnowledgeSection(turn[t].systemPrompt))
         = Len(join([i \in 1..Cardinality({d \in documents : d.isActive}) |->
                       renderDocument(orderByDescCreatedAt({d \in documents : d.isActive})[i])],
                    <<"\n\n">>))
\* Requests t and u carry the same user text and, if they reached the completion
\* endpoint, got the same behaviour from it.
SameInputs(t, u) ==
  /\ turn[t].userMessage = turn[u].userMessage
  /\ turn[t].completion = turn[u].completion

\* C16: for the same user text and the same behaviour of the completion endpoint,
\* processEphemeralMessage returns the same content, blocked flag and blockReason as
\* processMessage, or raises the same generic failure.
C16_EphemeralMatchesPersistent ==
  \A t, u \in Turns :
    /\ Persistent(t) /\ Ephemeral(u)
    /\ Finished(t) /\ Finished(u)
    /\ SameInputs(t, u)
    => turn[t].result = turn[u].result
\* C17: processMessage raises to its caller only when the completion call failed;
\* in every other execution (guardrail block, evaluator failure, malformed
\* evaluator output) it returns a reply.
C17_RaisesOnlyOnCompletionFailure ==
  \A t \in Turns :
    Persistent(t) /\ Finished(t) =>
      (turn[t].result.kind = "raised" <=> CompletionThrew(t))
\* A text was generated for request t: its completion call returned.
GenerationTookPlace(t) == turn[t].completion # None /\ ~The(turn[t].completion).throws

\* C18: the trace log of a request blocked by the input guardrail has no assistant
\* text; the field holds text only when a generation took place.
C18_NoAssistantTextBeforeGeneration ==
  \A i \in DOMAIN traceLogs :
    LET t == traceLogs[i].turn IN
    /\ InputBlocked(t) => traceLogs[i].assistantMessage = None
    /\ traceLogs[i].assistantMessage # None => GenerationTookPlace(t)
\* The stored trace log with the given id, as a set of at most one row.
TraceLogById(logs, id) == {logs[i] : i \in {j \in DOMAIN logs : logs[j].id = id}}

\* C19: a stored trace log is write-once: no step changes any of its fields, its
\* conversation reference included, and a step removes it only as part of the
\* deletion of the conversation it belongs to.
C19_TraceLogWriteOnce ==
  [][\A i \in DOMAIN traceLogs :
       LET row == traceLogs[i] IN
       \/ TraceLogById(traceLogs', row.id) = {row}
       \/ /\ TraceLogById(traceLogs', row.id) = {}
          /\ row.conversationId = Some(deletion.id)
          /\ deletion.pc # deletion'.pc]_vars
\* The history request t read: its message list without the system prompt and
\* without the user message appended last.
HistoryRead(t) == SubSeq(turn[t].chatMessages, 2, Len(turn[t].chatMessages) - 1)

\* C20: persistent requests of one conversation are not serialized: a request that
\* is about to read the history, or to store its assistant message, can take that
\* step whatever the position of the other requests of the conversation.
C20_TurnsNotSerialized ==
  \A t \in Turns :
    Persistent(t) =>
      /\ turn[t].pc = "getMessages" => ENABLED GetMessages(t)
      /\ turn[t].pc = "createMessage:assistant" => ENABLED AssistantMessage(t)

\* C20 witness: two requests of one conversation have both read the same history
\* (the two user messages), and their messages are stored out of turn order:
\* user 1, user 2, assistant 2, assistant 1.
C20_Witness ==
  /\ Persistent(1) /\ Persistent(2)
  /\ turn[1].conversationId = turn[2].conversationId
  /\ turn[1].pc = "done" /\ turn[2].pc = "done"
  /\ HistoryRead(1) = HistoryRead(2) /\ Len(HistoryRead(1)) = 2
  /\ [i \in DOMAIN messages |-> <<messages[i].turn, messages[i].role>>]
       = << <<1, "user">>, <<2, "user">>, <<2, "assistant">>, <<1, "assistant">> >>
\* The position of a step of processMessage in the order input check, prompt
\* composition, history load, completion call, evaluator call, trace write.
StepRank(pc) ==
  CASE pc = "idle" -> 0
    [] pc = "getActivePrompts" -> 1
    [] pc = "getActiveDocuments" -> 2
    [] pc = "getMessages" -> 3
    [] pc = "completion" -> 4
    [] pc = "evaluator" -> 5
    [] pc \in {"createTraceLog:input", "createTraceLog:output", "createTraceLog:success",
               "createTraceLog:error"} -> 6
    [] pc = "createMessage:assistant" -> 7
    [] pc = "done" -> 8

\* The steps of request t up to the trace write are taken in order, the two model
\* calls at most once and only after the checks before them passed.
CallsInOrder(t) ==
  /\ turn'[t].completionCalls <= 1 /\ turn'[t].evaluatorCalls <= 1
  /\ turn'[t].completionCalls > turn[t].completionCalls =>
       /\ turn[t].guardrailCheck # None /\ The(turn[t].guardrailCheck).passed
       /\ turn[t].pc = "getMessages"
  /\ turn'[t].evaluatorCalls > turn[t].evaluatorCalls =>
       /\ turn[t].pc = "completion" /\ GenerationTookPlace(t)'
       /\ turn'[t].outputCheck # None /\ The(turn'[t].outputCheck).passed
  /\ StepRank(turn'[t].pc) >= StepRank(turn[t].pc)

\* C21: within one persistent request the external steps happen only in the order
\* input check, prompt composition, history load, completion call, output check,
\* evaluator call, trace write, each at most once: no completion call before the
\* input check passed, no evaluator call unless the completion succeeded and the
\* output check passed, and no step is taken again after a failure.
C21_StepsInOrderOnce ==
  [][\A t \in Turns :
       Persistent(t) /\ turn'[t] # turn[t] =>
         /\ CallsInOrder(t)
         /\ StepRank(turn'[t].pc) > StepRank(turn[t].pc)]_vars
\* C22: every text checkInputGuardrails rejects for PII (SSN, phone number, e-mail
\* address or street address) is rejected by checkOutputGuardrails as well.
C22_OutputAppliesInputPatterns ==
  /\ call.fn = "checkOutputGuardrails"
  /\ checkInputGuardrails(call.arg).reason = Some(PII_REASON)
  => ~call.result.passed

\* C23: checkInputGuardrails and checkOutputGuardrails are deterministic and keep no
\* state: a call repeated on the same text gives the result of the call before, and
\* a call leaves no RegExp object behind whose lastIndex a later call would read.
C23_GuardrailsStateless ==
  call.fn \in {"checkInputGuardrails", "checkOutputGuardrails"} =>
    /\ call.before # None => call.result = The(call.before)
    /\ \A p \in PatternNames : call.lastIndex[p] = 0

\* C23 witness: the same PII text checked twice in a row, rejected both times.
C23_Witness ==
  /\ call.fn = "checkInputGuardrails"
  /\ call.arg = <<"123-45-6789", "hello">>
  /\ call.before = Some([passed |-> FALSE, reason |-> Some(PII_REASON)])
  /\ ~call.result.passed
\* C24: the prompt is never cached.  A request whose reads came after the last
\* committed admin change holds the prompts and documents active in the store now,
\* and its prompt is composed from them, whatever earlier requests have read.
C24_PromptNeverCached ==
  \A t \in Turns :
    /\ (turn[t].pc = "getActiveDocuments" \/ Composed(t)) /\ turn[t].promptsReadAt = adminOps
         => turn[t].activePrompts = getActivePrompts
    /\ Composed(t) /\ turn[t].promptsReadAt = adminOps /\ turn[t].documentsReadAt = adminOps
         => turn[t].systemPrompt = composePrompt(getActivePrompts, getActiveDocuments)

\* C24 witness: one request composed its prompt before an admin change and another
\* after it, and the later prompt is composed from the changed data.
C24_Witness ==
  \E t, u \in Turns :
    /\ Composed(t) /\ Composed(u)
    /\ turn[t].promptsReadAt = 0 /\ turn[t].documentsReadAt = 0
    /\ turn[u].promptsReadAt = adminOps /\ turn[u].documentsReadAt = adminOps /\ adminOps >= 1
    /\ turn[u].systemPrompt # turn[t].systemPrompt
    /\ turn[u].activePrompts # turn[t].activePrompts
    /\ turn[u].systemPrompt = composePrompt(getActivePrompts, getActiveDocuments)
\* C25: a user text that failed the input guardrail is in no message list sent to
\* the completion endpoint, neither as the message of its own request nor as
\* history of a later request of the conversation or of the chat-widget session.
C25_RejectedTextNeverSent ==
  \A t \in Turns :
    \A i \in DOMAIN turn[t].chatMessages :
      turn[t].chatMessages[i].role = "user" =>
        checkInputGuardrails(turn[t].chatMessages[i].content).passed

\* The same for the persistent endpoint alone.
C25_Persistent ==
  \A t \in Turns :
    Persistent(t) =>
      \A i \in DOMAIN turn[t].chatMessages :
        turn[t].chatMessages[i].role = "user" =>
          checkInputGuardrails(turn[t].chatMessages[i].content).passed

\* C26: a trace log with guardrail result "error" is stored only for a request whose
\* completion call threw; a request whose completion call succeeded stores no error
\* trace and does not end in the generic failure, whatever fails afterwards.
C26_ErrorTraceOnlyOnCompletionFailure ==
  \A t \in Turns :
    Persistent(t) =>
      /\ \A row \in TraceLogsOf(t) :
           row.guardrailResult = Some(<<"error">>) => CompletionThrew(t)
      /\ GenerationTookPlace(t) => turn[t].result # Raised(GENERIC_FAILURE)

\* C27: once every request to the persistent chat endpoint has finished, each stored
\* user message is followed by the assistant message of its request: the stored
\* messages consist of complete turns only.
C27_CompleteTurnsOnly ==
  (\A t \in Turns : Persistent(t) => turn[t].pc = "done") =>
    \A i \in DOMAIN messages :
      messages[i].role = "user" =>
        \E j \in DOMAIN messages :
          /\ j > i /\ messages[j].role = "assistant"
          /\ messages[j].turn = messages[i].turn
          /\ messages[j].conversationId = messages[i].conversationId

\* C28: the prompt composed for a request corresponds to one state of the store:
\* the active prompts and the active documents it was composed from were returned
\* together by the two queries at start-up or after one of the admin writes.
C28_PromptFromOneStoreState ==
  \A t \in Turns :
    Composed(t) =>
      \E v \in DOMAIN versions :
        /\ turn[t].activePrompts = versions[v].prompts
        /\ turn[t].systemPrompt = composePrompt(versions[v].prompts, versions[v].documents)

\* C29: for a persistent request that returned, the reply agrees with the trace
\* log it wrote: the same blocked flag, the reply text as the assistant text, and
\* blocked exactly when the trace log has a block reason.
C29_ReplyAgreesWithTraceLog ==
  \A t \in Turns :
    Persistent(t) /\ turn[t].result.kind = "returned" =>
      /\ turn[t].traceWrites = 1
      /\ \A row \in TraceLogsOf(t) :
           /\ row.blocked = turn[t].result.blocked
           /\ row.assistantMessage = Some(turn[t].result.content)
           /\ turn[t].result.blocked <=> row.blockReason # None

\* C29 witness: a request blocked by the output guardrail and a request answered
\* with the generated text have returned, and their trace logs are stored.
C29_Witness ==
  \E t, u \in Turns :
    /\ Persistent(t) /\ OutputBlocked(t) /\ turn[t].result.kind = "returned"
    /\ turn[t].result.blocked /\ TraceLogsOf(t) # {}
    /\ Persistent(u) /\ turn[u].result.kind = "returned"
    /\ ~turn[u].result.blocked /\ TraceLogsOf(u) # {}

\* The routes guarded by requireAdmin.
AdminRoutes ==
  ListRoutes \cup
  {"GET /api/documents/:id", "GET /api/prompts/:id", "POST /api/documents/upload",
   "POST /api/documents", "PATCH /api/documents/:id", "DELETE /api/documents/:id",
   "POST /api/prompts", "PATCH /api/prompts/:id", "DELETE /api/prompts/:id"}

\* C30: a request to a document, prompt or trace-log route whose session has no
\* admin flag is answered 401 and neither reads nor writes the store; a session
\* gets the flag only by a login with the configured credentials, a logout removes
\* it, and a failed login changes no flag.
C30_AdminRoutesGuarded ==
  [][LET r == auth'.last IN
     /\ r.route \in AdminRoutes /\ ~auth.isAdmin[r.sid] =>
          /\ r.status = 401 /\ r.storageCalls = 0
          /\ UNCHANGED <<storeVars, adminOps, versions>>
     /\ \A sid \in SessionIds :
          auth'.isAdmin[sid] /\ ~auth.isAdmin[sid] =>
            /\ r.route = "POST /api/admin/login" /\ r.sid = sid /\ r.status = 200
            /\ r.username = Some(ADMIN_USERNAME) /\ r.password = Some(ADMIN_PASSWORD)
     /\ r.route = "POST /api/admin/logout" => ~auth'.isAdmin[r.sid]
     /\ r.route = "POST /api/admin/login" /\ r.status # 200 => auth'.isAdmin = auth.isAdmin]_vars

\* C30 witness: after an admin wrote to the store and every session was logged out,
\* a request to create a document is answered 401.
C30_Witness ==
  /\ adminOps >= 1
  /\ \A sid \in SessionIds : ~auth.isAdmin[sid]
  /\ auth.last.route = "POST /api/documents" /\ auth.last.status = 401
====
